---------------------------- MODULE Spec2Model ----------------------------
(***************************************************************************)
(* Smart mirror: the measurement calculator (MeasurementCalculator) and    *)
(* the garment overlay (ClothingOverlay), as state machines over the calls *)
(* made on one instance of each.                                           *)
(* Two further machines share the calculator: calculate_from_keypoints    *)
(* statement by statement under two calling threads, and the main script's *)
(* loop stage by stage.                                                    *)
(*                                                                         *)
(* Units.  Lengths in cm are kept in tenths of a cm (the code rounds every *)
(* output to one decimal).  A proximity reading is kept in hundredths of a *)
(* cm (SensorManager.measure_distance rounds to two decimals).  The        *)
(* pixel-to-cm ratio is kept in units of 1e-5, so 0.15 + d/1000 is         *)
(* 15000 + d exactly.  Python floats are modelled by the exact rational    *)
(* value of each expression, round(x, 1) by round-half-to-even of that     *)
(* value; z and v of a keypoint never reach an output and are left out.    *)
(***************************************************************************)
EXTENDS Integers, Sequences, FiniteSets, TLC

VARIABLES
    pixel_to_cm_ratio,  \* MeasurementCalculator.pixel_to_cm_ratio, in 1e-5
    calibrated,         \* history: has line 41 ever assigned the ratio
    call,               \* history: the last call made, its arguments and outcome
    threads,            \* each thread's position in calculate_from_keypoints
    main,               \* the main script: its globals and position in the loop
    iteration           \* history: what the current loop iteration has done

vars == <<pixel_to_cm_ratio, calibrated, call, threads, main, iteration>>

---------------------------------------------------------------------------
(* MediaPipe landmark indices, MeasurementCalculator.keypoints.            *)

left_shoulder == 11
right_shoulder == 12
left_elbow == 13
right_elbow == 14
left_wrist == 15
right_wrist == 16
left_hip == 23
right_hip == 24
left_knee == 25
right_knee == 26
left_ankle == 27
right_ankle == 28
neck == 0

\* A landmark the provider yields and neither class reads (an eye).
other_landmark == 1

UsedLandmarks ==
    {neck, left_shoulder, right_shoulder, left_elbow, right_elbow, left_wrist,
     right_wrist, left_hip, right_hip, left_knee, right_knee, left_ankle,
     right_ankle}

Landmarks == UsedLandmarks \cup {other_landmark}

---------------------------------------------------------------------------
(* Arithmetic.                                                             *)

Abs(n) == IF n < 0 THEN -n ELSE n

Min(a, b) == IF a < b THEN a ELSE b

Max(a, b) == IF a > b THEN a ELSE b

\* floor(sqrt(n)), by bisection on [lo, hi].
RECURSIVE SqrtBetween(_, _, _)
SqrtBetween(n, lo, hi) ==
    IF lo >= hi THEN lo
    ELSE LET mid == (lo + hi + 1) \div 2
         IN  IF mid * mid <= n THEN SqrtBetween(n, mid, hi)
             ELSE SqrtBetween(n, lo, mid - 1)

\* Numbers too large for one integer, as base-1000 digits, lowest first.
RECURSIVE Limbs(_)
Limbs(n) == IF n < 1000 THEN <<n>> ELSE <<n % 1000>> \o Limbs(n \div 1000)

RECURSIVE MulCarry(_, _, _)
MulCarry(L, s, carry) ==
    IF L = <<>> THEN (IF carry = 0 THEN <<>> ELSE Limbs(carry))
    ELSE LET t == Head(L) * s + carry
         IN  <<t % 1000>> \o MulCarry(Tail(L), s, t \div 1000)

Times(L, s) == MulCarry(L, s, 0)

RECURSIVE LimbsValue(_)
LimbsValue(L) == IF L = <<>> THEN 0 ELSE Head(L) + 1000 * LimbsValue(Tail(L))

\* L / 1000^j rounded to the nearest integer, ties to the even one.
RoundHalfEven(L, j) ==
    LET q   == IF Len(L) > j THEN LimbsValue(SubSeq(L, j + 1, Len(L))) ELSE 0
        top == IF Len(L) >= j THEN L[j] ELSE 0
        low == \E i \in 1..(j - 1) : i <= Len(L) /\ L[i] # 0
    IN  IF top > 500 \/ (top = 500 /\ low) THEN q + 1
        ELSE IF top = 500 /\ q % 2 = 1 THEN q + 1
        ELSE q

---------------------------------------------------------------------------
(* Keypoint frames.  A keypoints argument is None or a mapping from        *)
(* landmark index to a point; [some |-> FALSE] is None.                    *)

Point(px, py) == [x |-> px, y |-> py]

EmptyMap == [i \in {} |-> 0]

\* The threads that may call into one MeasurementCalculator; pc 0 is outside
\* any call.
Threads == {1, 2}

NoThreads == [t \in Threads |-> [pc |-> 0]]

NoKeypoints == [some |-> FALSE, pts |-> EmptyMap]

Keypoints(f) == [some |-> TRUE, pts |-> f]

\* Faulty variant: tests only for None (if keypoints is None).
Falsy_none_only(kp) == ~kp.some

\* Python: not keypoints (None, or the empty dict).
Falsy(kp) == ~kp.some \/ DOMAIN kp.pts = {}

\* Python: keypoints.get(i), truth-tested.
Has(kp, i) == i \in DOMAIN kp.pts

Get(kp, i) == kp.pts[i]

Restrict(f, S) == [i \in (DOMAIN f) \cap S |-> f[i]]

---------------------------------------------------------------------------
(* MeasurementCalculator.                                                  *)

InitialRatio == 20000

\* math.sqrt of the squared planar distance; the frames of this model keep
\* every measured pair on a line or a 3-4-5 triangle, where it is exact.
distance(p, q) ==
    LET dx == Abs(p.x - q.x)
        dy == Abs(p.y - q.y)
    IN  SqrtBetween(dx * dx + dy * dy, 0, dx + dy)

\* Faulty variant: the ends of the range included (30 <= d <= 300).
CalibrationValid_inclusive(d) == 3000 <= d /\ d <= 30000

\* 30 < actual_distance < 300
CalibrationValid(d) == 3000 < d /\ d < 30000

\* Faulty variant: 0.15 + d / 100.
CalibratedRatio_per_hundred(d) == 15000 + 10 * d

\* 0.15 + (actual_distance / 1000)
CalibratedRatio(d) == 15000 + d

\* Faulty variant: the new ratio averaged with the old one.
Calibrate_smoothed(ratio, d) ==
    IF CalibrationValid(d) THEN (ratio + CalibratedRatio(d)) \div 2 ELSE ratio

\* Lines 39-41.
Calibrate(ratio, d) == IF CalibrationValid(d) THEN CalibratedRatio(d) ELSE ratio

mid_hip(kp) ==
    Point((Get(kp, left_hip).x + Get(kp, right_hip).x) \div 2,
          (Get(kp, left_hip).y + Get(kp, right_hip).y) \div 2)

\* round(px * ratio * mult / 1000^j) in tenths of a cm.
Tenths(px, ratio, mult, j) == RoundHalfEven(Times(Limbs(px * ratio), mult), j)

\* round(px * ratio, 1)
RoundLength(px, ratio) == Tenths(px, ratio, 100, 2)

\* round(sum(lengths) / len(lengths), 1), lengths the qualifying limbs' px * ratio
RoundMean(pxs, ratio) ==
    LET total == IF Len(pxs) = 2 THEN pxs[1] + pxs[2] ELSE pxs[1]
    IN  Tenths(total, ratio, 100 \div Len(pxs), 2)

\* round(width_px * ratio * 3.14159 / 2, 1) where width_px is the pixel distance
\* times 1.4 (factor 14, scale 50), 1.2 (12, 50) or 1.2 * 0.9 (108, 5):
\* px * ratio * factor * 314159 * scale / 1000^4 tenths of a cm.
RoundCircumference(px, ratio, factor, scale) ==
    RoundHalfEven(Times(Times(Times(Limbs(px * ratio), factor), 314159), scale), 4)

HasBoth(kp, a, b) == Has(kp, a) /\ Has(kp, b)

HasAll(kp, a, b, c) == Has(kp, a) /\ Has(kp, b) /\ Has(kp, c)

\* One arm's or leg's pixel length, as a sequence of zero or one element.
LimbPx(kp, a, b, c) ==
    IF HasAll(kp, a, b, c)
    THEN <<distance(Get(kp, a), Get(kp, b)) + distance(Get(kp, b), Get(kp, c))>>
    ELSE <<>>

\* Faulty variant: a field without its prerequisites is written as 0.
Entry_zero_filled(cond, name, value) == name :> (IF cond THEN value ELSE 0)

\* if cond: measurements[name] = value
Entry(cond, name, value) == IF cond THEN name :> value ELSE EmptyMap

\* Faulty variant: the first comparison is chest <= 85.
determine_size_inclusive(m) ==
    IF DOMAIN m = {} \/ "chest" \notin DOMAIN m THEN "M"
    ELSE IF m["chest"] <= 850 THEN "XS"
    ELSE IF m["chest"] < 950 THEN "S"
    ELSE IF m["chest"] < 1050 THEN "M"
    ELSE IF m["chest"] < 1150 THEN "L"
    ELSE IF m["chest"] < 1250 THEN "XL"
    ELSE "XXL"

determine_size(m) ==
    IF DOMAIN m = {} \/ "chest" \notin DOMAIN m THEN "M"
    ELSE IF m["chest"] < 850 THEN "XS"
    ELSE IF m["chest"] < 950 THEN "S"
    ELSE IF m["chest"] < 1050 THEN "M"
    ELSE IF m["chest"] < 1150 THEN "L"
    ELSE IF m["chest"] < 1250 THEN "XL"
    ELSE "XXL"

\* The measurements dict before 'size' is added, every formula using ratio.
MeasurementFields(kp, ratio) ==
    LET shoulders == HasBoth(kp, left_shoulder, right_shoulder)
        hips      == HasBoth(kp, left_hip, right_hip)
        shoulder_width_px == distance(Get(kp, left_shoulder), Get(kp, right_shoulder))
        arm_lengths == LimbPx(kp, left_shoulder, left_elbow, left_wrist)
                       \o LimbPx(kp, right_shoulder, right_elbow, right_wrist)
        torso     == Has(kp, neck) /\ hips
        leg_lengths == LimbPx(kp, left_hip, left_knee, left_ankle)
                       \o LimbPx(kp, right_hip, right_knee, right_ankle)
        hip_px    == distance(Get(kp, left_hip), Get(kp, right_hip))
        basic ==
            Entry(shoulders, "shoulder_width", RoundLength(shoulder_width_px, ratio))
            @@ Entry(arm_lengths # <<>>, "arm_length", RoundMean(arm_lengths, ratio))
            @@ Entry(torso, "torso_length",
                     RoundLength(distance(Get(kp, neck), mid_hip(kp)), ratio))
            @@ Entry(leg_lengths # <<>>, "leg_length", RoundMean(leg_lengths, ratio))
        height ==
            Entry("torso_length" \in DOMAIN basic /\ "leg_length" \in DOMAIN basic,
                  "estimated_height",
                  RoundHalfEven(Limbs((12 * basic["torso_length"]
                                       + 10 * basic["leg_length"]) * 100), 1))
    IN  basic @@ height
        @@ Entry(shoulders, "chest", RoundCircumference(shoulder_width_px, ratio, 14, 50))
        @@ Entry(hips, "hips", RoundCircumference(hip_px, ratio, 12, 50))
        @@ Entry(hips, "waist", RoundCircumference(hip_px, ratio, 108, 5))

NoneResult == [kind |-> "None"]

MeasurementSet(m) == [kind |-> "measurements", fields |-> m, size |-> determine_size(m)]

\* calculate_from_keypoints: the value returned and the ratio the call leaves.
calculate_from_keypoints(kp, d, ratio) ==
    IF Falsy(kp) THEN [ret |-> NoneResult, ratio |-> ratio, assigned |-> FALSE]
    ELSE LET r == Calibrate(ratio, d)
         IN  [ret |-> MeasurementSet(MeasurementFields(kp, r)), ratio |-> r,
              assigned |-> CalibrationValid(d)]

---------------------------------------------------------------------------
(* ClothingOverlay.                                                        *)

FrameW == 640

FrameH == 480

UpperKinds == {"tshirt", "shirt", "jacket"}

\* self.garments once __init__ has run: an image, loaded or placeholder,
\* for each kind and gender.
garments ==
    [k \in UpperKinds \cup {"pants"} |-> [g \in {"male", "female"} |-> "image"]]

\* Faulty variant: an unknown gender falls back to the male image.
GarmentImage_default_male(kind, gender) ==
    IF kind \in DOMAIN garments THEN garments[kind]["male"] ELSE "None"

\* self.garments.get(garment_type, {}).get(gender)
GarmentImage(kind, gender) ==
    IF kind \in DOMAIN garments /\ gender \in DOMAIN garments[kind]
    THEN garments[kind][gender]
    ELSE "None"

\* The early returns of overlay_garment that hand back the frame argument.
MissingInput(kp, kind, gender) ==
    \/ Falsy(kp)
    \/ kind \notin DOMAIN garments
    \/ GarmentImage(kind, gender) = "None"
    \/ kind \in UpperKinds /\ (~Has(kp, left_shoulder) \/ ~Has(kp, right_shoulder))
    \/ kind = "pants" /\ (~Has(kp, left_hip) \/ ~Has(kp, right_hip))

\* Upper body garment: width, height and position before clamping.
UpperRect(kp) ==
    LET ls == Get(kp, left_shoulder)
        rs == Get(kp, right_shoulder)
        garment_width == (3 * Abs(rs.x - ls.x)) \div 2
        garment_height ==
            IF HasBoth(kp, left_hip, right_hip)
            THEN (11 * (Abs(Get(kp, left_hip).y - ls.y)
                        + Abs(Get(kp, right_hip).y - rs.y))) \div 20
            ELSE (3 * garment_width) \div 2
    IN  [width |-> garment_width, height |-> garment_height,
         pos_x |-> Min(ls.x, rs.x),
         pos_y |-> Min(ls.y, rs.y) - garment_height \div 10]

LowerRect_knees_first(kp) ==
    LET lh == Get(kp, left_hip)
        rh == Get(kp, right_hip)
        garment_width == (6 * Abs(rh.x - lh.x)) \div 5
        garment_height ==
            IF HasBoth(kp, left_knee, right_knee)
            THEN (21 * (Abs(Get(kp, left_knee).y - lh.y)
                        + Abs(Get(kp, right_knee).y - rh.y))) \div 20
            ELSE IF HasBoth(kp, left_ankle, right_ankle)
            THEN (Abs(Get(kp, left_ankle).y - lh.y)
                  + Abs(Get(kp, right_ankle).y - rh.y)) \div 2
            ELSE garment_width * 2
    IN  [width |-> garment_width, height |-> garment_height,
         pos_x |-> Min(lh.x, rh.x), pos_y |-> Min(lh.y, rh.y)]

\* Pants: width, height and position before clamping.
LowerRect(kp) ==
    LET lh == Get(kp, left_hip)
        rh == Get(kp, right_hip)
        garment_width == (6 * Abs(rh.x - lh.x)) \div 5
        garment_height ==
            IF HasBoth(kp, left_ankle, right_ankle)
            THEN (Abs(Get(kp, left_ankle).y - lh.y)
                  + Abs(Get(kp, right_ankle).y - rh.y)) \div 2
            ELSE IF HasBoth(kp, left_knee, right_knee)
            THEN (21 * (Abs(Get(kp, left_knee).y - lh.y)
                        + Abs(Get(kp, right_knee).y - rh.y))) \div 20
            ELSE garment_width * 2
    IN  [width |-> garment_width, height |-> garment_height,
         pos_x |-> Min(lh.x, rh.x), pos_y |-> Min(lh.y, rh.y)]

GarmentRect(kp, kind) == IF kind \in UpperKinds THEN UpperRect(kp) ELSE LowerRect(kp)

\* The locals garment_width and garment_height of a call: unset when a guard
\* returned before they were computed.
NoSize == [set |-> FALSE]

GarmentSize(kp, kind, gender) ==
    IF MissingInput(kp, kind, gender) THEN NoSize
    ELSE LET rect == GarmentRect(kp, kind)
         IN  [set |-> TRUE, garment_width |-> rect.width,
              garment_height |-> rect.height]

\* cv2.resize raises cv2.error for a target size that is not positive.
ResizeRaises(rect) == rect.width <= 0 \/ rect.height <= 0

\* max(0, min(pos, dim - size))
Clamp(pos, dim, size) == Max(0, Min(pos, dim - size))

\* The length of the numpy slice a[start:start + len] of an axis of n, start >= 0.
SliceLen(start, len, n) == Max(0, Min(start + len, n) - Min(start, n))

\* Lines 183-189: the region of the frame the garment is composited into.
Region(rect, w, h) ==
    LET pos_x == Clamp(rect.pos_x, w, rect.width)
        pos_y == Clamp(rect.pos_y, h, rect.height)
    IN  [pos_x |-> pos_x, pos_y |-> pos_y,
         roi_width |-> Min(rect.width, w - pos_x),
         roi_height |-> Min(rect.height, h - pos_y)]

\* roi.shape[0:2] != garment_roi.shape[0:2]
ShapesDiffer(reg, rect, w, h) ==
    <<SliceLen(reg.pos_y, reg.roi_height, h), SliceLen(reg.pos_x, reg.roi_width, w)>>
    # <<SliceLen(0, reg.roi_height, rect.height), SliceLen(0, reg.roi_width, rect.width)>>

NoRegion == [pos_x |-> 0, pos_y |-> 0, roi_width |-> 0, roi_height |-> 0]

\* What a call hands back: returns "frame" (the argument itself), "result" (the
\* copy made at line 118), "None" (the end of the function body is reached: the
\* source stops at line 204, a comment, with no blend and no return), or raises.
\* No line writes a pixel of frame or of result, so written is FALSE throughout.
Outcome(how, reached, reg) ==
    [returns |-> how, composites |-> reached, region |-> reg, written |-> FALSE]

\* overlay_garment(frame, keypoints, garment_type, gender, distance) on a frame
\* of w x h; distance is never read.
overlay_garment(w, h, kp, kind, gender) ==
    IF MissingInput(kp, kind, gender) THEN Outcome("frame", FALSE, NoRegion)
    ELSE LET rect == GarmentRect(kp, kind)
             reg  == Region(rect, w, h)
         IN  IF ResizeRaises(rect) THEN Outcome("raise", FALSE, NoRegion)
             ELSE IF reg.roi_width <= 0 \/ reg.roi_height <= 0
             THEN Outcome("result", FALSE, NoRegion)
             ELSE IF ShapesDiffer(reg, rect, w, h)
             THEN Outcome("result", FALSE, NoRegion)
             ELSE Outcome("None", TRUE, reg)

---------------------------------------------------------------------------
(* The inputs of the model.                                                *)

\* A person standing in view: the shoulders and hips of the specification's
\* worked example, the left elbow off the vertical by a 3-4-5 triangle.
Standing ==
    (neck :> Point(150, 20)) @@ (other_landmark :> Point(140, 15))
    @@ (left_shoulder :> Point(100, 50)) @@ (right_shoulder :> Point(200, 50))
    @@ (left_elbow :> Point(70, 90)) @@ (right_elbow :> Point(200, 130))
    @@ (left_wrist :> Point(70, 170)) @@ (right_wrist :> Point(200, 200))
    @@ (left_hip :> Point(110, 300)) @@ (right_hip :> Point(190, 300))
    @@ (left_knee :> Point(110, 380)) @@ (right_knee :> Point(190, 380))
    @@ (left_ankle :> Point(110, 460)) @@ (right_ankle :> Point(190, 460))

\* Seen from the side: both shoulders share an x, and so do both hips.
Sideways ==
    (neck :> Point(150, 20)) @@ (other_landmark :> Point(150, 15))
    @@ (left_shoulder :> Point(150, 50)) @@ (right_shoulder :> Point(150, 60))
    @@ (left_elbow :> Point(150, 130)) @@ (right_elbow :> Point(150, 140))
    @@ (left_wrist :> Point(150, 200)) @@ (right_wrist :> Point(150, 210))
    @@ (left_hip :> Point(150, 300)) @@ (right_hip :> Point(150, 310))
    @@ (left_knee :> Point(150, 380)) @@ (right_knee :> Point(150, 390))
    @@ (left_ankle :> Point(150, 460)) @@ (right_ankle :> Point(150, 470))

\* Lying across the view: shoulders, hips and ankles share a y.
Flat ==
    (neck :> Point(60, 240)) @@ (other_landmark :> Point(50, 240))
    @@ (left_shoulder :> Point(100, 240)) @@ (right_shoulder :> Point(200, 240))
    @@ (left_elbow :> Point(100, 300)) @@ (right_elbow :> Point(200, 300))
    @@ (left_wrist :> Point(100, 360)) @@ (right_wrist :> Point(200, 360))
    @@ (left_hip :> Point(110, 240)) @@ (right_hip :> Point(190, 240))
    @@ (left_knee :> Point(110, 240)) @@ (right_knee :> Point(190, 240))
    @@ (left_ankle :> Point(110, 240)) @@ (right_ankle :> Point(190, 240))

\* Too close: the body is wider and taller than the 640x480 frame.
Close ==
    (neck :> Point(250, 0)) @@ (other_landmark :> Point(240, -10))
    @@ (left_shoulder :> Point(-100, 100)) @@ (right_shoulder :> Point(600, 100))
    @@ (left_elbow :> Point(-100, 400)) @@ (right_elbow :> Point(600, 400))
    @@ (left_wrist :> Point(-100, 700)) @@ (right_wrist :> Point(600, 700))
    @@ (left_hip :> Point(0, 700)) @@ (right_hip :> Point(500, 700))
    @@ (left_knee :> Point(0, 1000)) @@ (right_knee :> Point(500, 1000))
    @@ (left_ankle :> Point(0, 1300)) @@ (right_ankle :> Point(500, 1300))

\* Partly outside the view, up and to the left: negative coordinates.
OffLeft ==
    (neck :> Point(-10, -60)) @@ (other_landmark :> Point(-20, -70))
    @@ (left_shoulder :> Point(-60, -40)) @@ (right_shoulder :> Point(40, -40))
    @@ (left_elbow :> Point(-60, 40)) @@ (right_elbow :> Point(40, 40))
    @@ (left_wrist :> Point(-60, 110)) @@ (right_wrist :> Point(40, 110))
    @@ (left_hip :> Point(-50, 200)) @@ (right_hip :> Point(30, 200))
    @@ (left_knee :> Point(-50, 280)) @@ (right_knee :> Point(30, 280))
    @@ (left_ankle :> Point(-50, 360)) @@ (right_ankle :> Point(30, 360))

\* Partly outside the view, down and to the right.
OffRight ==
    (neck :> Point(650, 420)) @@ (other_landmark :> Point(640, 410))
    @@ (left_shoulder :> Point(600, 450)) @@ (right_shoulder :> Point(700, 450))
    @@ (left_elbow :> Point(600, 530)) @@ (right_elbow :> Point(700, 530))
    @@ (left_wrist :> Point(600, 600)) @@ (right_wrist :> Point(700, 600))
    @@ (left_hip :> Point(610, 470)) @@ (right_hip :> Point(690, 470))
    @@ (left_knee :> Point(610, 550)) @@ (right_knee :> Point(690, 550))
    @@ (left_ankle :> Point(610, 630)) @@ (right_ankle :> Point(690, 630))

\* Standing with the feet apart: each knee and ankle is out of the vertical
\* of its hip by 3-4-5 triangles.
Astride ==
    (left_knee :> Point(80, 340)) @@ (right_knee :> Point(220, 340))
    @@ (left_ankle :> Point(50, 380)) @@ (right_ankle :> Point(250, 380))
    @@ Standing

Poses == {Standing, Sideways, Flat, Close, OffLeft, OffRight, Astride}

Upper ==
    {neck, left_shoulder, right_shoulder, left_elbow, right_elbow, left_wrist,
     right_wrist}

Lower == {left_hip, right_hip, left_knee, right_knee, left_ankle, right_ankle}

\* Which landmarks the detector found.
Visible ==
    {Landmarks, {}, {other_landmark}, Upper, Lower,
     Landmarks \ {right_shoulder}, Landmarks \ {left_hip},
     Landmarks \ {right_elbow, right_knee, neck},
     {left_shoulder, right_shoulder, left_hip, right_hip},
     {left_shoulder, right_shoulder},
     Landmarks \ {left_ankle, right_ankle},
     Landmarks \ {left_ankle, left_knee}}

\* The keypoints arguments of the calls: the standing pose under every
\* visibility, every other pose in full and with shoulders and hips only,
\* and None.
Frames ==
    {NoKeypoints}
    \cup {Keypoints(Restrict(Standing, V)) : V \in Visible}
    \cup {Keypoints(Restrict(P, V)) :
            P \in Poses,
            V \in {Landmarks, {left_shoulder, right_shoulder, left_hip, right_hip},
                   {left_shoulder, right_shoulder}}}

\* Proximity readings in hundredths of a cm: both ends of (30, 300), the
\* readings next to them, one inside, and the sensor's timeout value 400.
Readings == {3000, 3001, 15000, 29999, 30000, 40000}

\* Garment kinds and genders asked for: the catalog's, and one of each that
\* the catalog does not hold.
KindsAsked == DOMAIN garments \cup {"dress"}

GendersAsked == {"male", "female", "other"}

\* chest values (tenths of a cm) handed to determine_size directly: within
\* ChestSlack of each size boundary, and 0.
ChestSlack == 2

SizeBoundaries == {850, 950, 1050, 1150, 1250}

ChestValues == {0} \cup {b + k : b \in SizeBoundaries, k \in (0 - ChestSlack)..ChestSlack}

\* measurements dicts handed to determine_size directly: empty, without a
\* chest, and with each chest value, with and without hips beside it.
SizeInputs ==
    {EmptyMap, "hips" :> 1300}
    \cup {"chest" :> c : c \in ChestValues}
    \cup {("chest" :> c) @@ ("hips" :> 1300) : c \in ChestValues}

\* The ratios calculate_from_keypoints can leave, and its outcomes tabulated
\* over them and the inputs above (computed once, looked up by Measure).
Ratios == {InitialRatio} \cup {CalibratedRatio(d) : d \in {r \in Readings : CalibrationValid(r)}}

Tabulated ==
    [kp \in Frames, d \in Readings, r \in Ratios |-> calculate_from_keypoints(kp, d, r)]

Calculated(kp, d, r) ==
    IF <<kp, d, r>> \in DOMAIN Tabulated THEN Tabulated[kp, d, r]
    ELSE calculate_from_keypoints(kp, d, r)

---------------------------------------------------------------------------
(* The main script.                                                        *)

\* A name that has not been assigned yet.
Unbound == [kind |-> "unbound"]

\* Lines 36-43, before the first iteration.  gesture_age is time.time() minus
\* sensor_mgr.last_gesture_time in whole seconds, counted up to Debounce + 1:
\* last_gesture_time starts at 0, ages before any gesture.
Debounce == 2

MainInit ==
    [pc |-> "grab", current_garment |-> "tshirt", user_gender |-> "male",
     show_measurements |-> TRUE, show_debug |-> FALSE,
     user_measurements |-> Unbound, body_keypoints |-> Unbound,
     distance |-> 0, frame |-> "unbound", gesture_age |-> Debounce + 1]

\* Nothing measured, overlaid, shown or saved yet in this iteration.
NoIteration ==
    [assigned |-> FALSE, fresh |-> Unbound,
     overlay |-> [called |-> FALSE],
     shown |-> [passed |-> FALSE],
     saved |-> [written |-> FALSE],
     key |-> "unread"]

\* ClothingOverlay._load_image: None without the file, else what cv2.imread
\* gives, the image or None for a file it cannot read.
load_image(files, kind, gender) ==
    IF files[<<kind, gender>>] = "readable" THEN "image" ELSE "None"

\* ClothingOverlay.__init__ with the image files that exist: every None is
\* replaced by a placeholder.
BuiltCatalog(files) ==
    [k \in UpperKinds \cup {"pants"} |->
        [g \in {"male", "female"} |->
            IF load_image(files, k, g) = "None" THEN "image"
            ELSE load_image(files, k, g)]]

CatalogFiles == (UpperKinds \cup {"pants"}) \X {"male", "female"}

\* The catalogs __init__ can build, over the image files that can exist.
CatalogsBuilt ==
    {BuiltCatalog(files) : files \in [CatalogFiles -> {"missing", "unreadable", "readable"}]}

\* Faulty variant: the gesture toggles between "shirt" and "t-shirt".
ToggleGarment_hyphenated(current) == IF current = "tshirt" THEN "shirt" ELSE "t-shirt"

\* Line 76: "shirt" if current_garment == "tshirt" else "tshirt"
ToggleGarment(current) == IF current = "tshirt" THEN "shirt" ELSE "tshirt"

\* Faulty variant: user_measurements is passed whatever body_keypoints is.
ShownMeasurements_always(m) == [passed |-> TRUE, read |-> TRUE, value |-> m.user_measurements]

\* Line 120: user_measurements if body_keypoints else None
ShownMeasurements(m) ==
    IF ~Falsy(m.body_keypoints)
    THEN [passed |-> TRUE, read |-> TRUE, value |-> m.user_measurements]
    ELSE [passed |-> TRUE, read |-> FALSE, value |-> NoneResult]

\* What the detector returns in the loop: None or every landmark.
LoopFrames == {NoKeypoints} \cup {Keypoints(P) : P \in {Standing, Sideways, Close}}

LoopReadings == {3000, 15000}

\* Seconds between two passes through line 75.
Elapsed == {0, 1, Debounce + 1}

Keys == {"q", "m", "d", "g", "t", "s", "j", "p", "c", "none"}

\* Lines 50-53: the camera gives a frame or the loop breaks.
GrabFrame(ret) ==
    /\ main.pc = "grab"
    /\ main' = IF ret THEN [main EXCEPT !.pc = "sensors", !.frame = "image"]
               ELSE [main EXCEPT !.pc = "stopped"]
    /\ iteration' = NoIteration
    /\ UNCHANGED <<pixel_to_cm_ratio, calibrated, call, threads>>

\* Lines 68-82: the sensors are read; a gesture past the debounce toggles the
\* garment and restarts the debounce.
CheckSensors(ir_detected, elapsed, reading) ==
    /\ main.pc = "sensors"
    /\ LET age  == Min(main.gesture_age + elapsed, Debounce + 1)
           fire == ir_detected /\ age > Debounce
       IN  main' = [main EXCEPT
                      !.pc = "pose",
                      !.distance = reading,
                      !.gesture_age = IF fire THEN 0 ELSE age,
                      !.current_garment = IF fire THEN ToggleGarment(@) ELSE @]
    /\ UNCHANGED <<pixel_to_cm_ratio, calibrated, call, threads, iteration>>

\* Lines 84-100: with keypoints, the measurements are taken and the garment
\* overlaid; an exception from overlay_garment ends the program, and the
\* value it returns becomes frame.
DetectPose(kp) ==
    /\ main.pc = "pose"
    /\ IF Falsy(kp)
       THEN /\ main' = [main EXCEPT !.pc = "draw", !.body_keypoints = kp]
            /\ UNCHANGED <<pixel_to_cm_ratio, calibrated, iteration>>
       ELSE LET out == Calculated(kp, main.distance, pixel_to_cm_ratio)
                ov  == overlay_garment(FrameW, FrameH, kp, main.current_garment,
                                       main.user_gender)
            IN  /\ pixel_to_cm_ratio' = out.ratio
                /\ calibrated' = (calibrated \/ out.assigned)
                /\ main' = [main EXCEPT
                              !.pc = IF ov.returns = "raise" THEN "stopped" ELSE "draw",
                              !.body_keypoints = kp,
                              !.user_measurements = out.ret,
                              !.frame = IF ov.returns = "raise" THEN @
                                        ELSE IF ov.returns = "None" THEN "None"
                                        ELSE "image"]
                /\ iteration' = [iteration EXCEPT
                              !.assigned = TRUE,
                              !.fresh = out.ret,
                              !.overlay = [called |-> TRUE,
                                           kind |-> main.current_garment,
                                           gender |-> main.user_gender]]
    /\ UNCHANGED <<call, threads>>

\* Lines 112-126: the arguments of draw_interface are evaluated and it is
\* called; what it does with a frame of None is not in the sources, so it
\* either raises or returns.
DrawInterface(drawn) ==
    /\ main.pc = "draw"
    /\ main' = [main EXCEPT
                  !.pc = IF main.frame = "None" /\ ~drawn THEN "stopped" ELSE "key"]
    /\ iteration' = [iteration EXCEPT !.shown = ShownMeasurements(main)]
    /\ UNCHANGED <<pixel_to_cm_ratio, calibrated, call, threads>>

\* Lines 129-154: the key commands.
HandleKey(key) ==
    /\ main.pc = "key"
    /\ main' = [main EXCEPT
          !.pc = IF key = "q" THEN "stopped" ELSE "grab",
          !.show_measurements = IF key = "m" THEN ~@ ELSE @,
          !.show_debug = IF key = "d" THEN ~@ ELSE @,
          !.user_gender = IF key = "g"
                          THEN (IF @ = "male" THEN "female" ELSE "male") ELSE @,
          !.current_garment = CASE key = "t" -> "tshirt"
                                [] key = "s" -> "shirt"
                                [] key = "j" -> "jacket"
                                [] key = "p" -> "pants"
                                [] OTHER -> @]
    /\ iteration' = [iteration EXCEPT
          !.key = key,
          !.saved = IF key = "c" /\ ~Falsy(main.body_keypoints)
                    THEN [written |-> TRUE, value |-> main.user_measurements]
                    ELSE @]
    /\ UNCHANGED <<pixel_to_cm_ratio, calibrated, call, threads>>

NextLoop ==
    \/ \E ret \in BOOLEAN : GrabFrame(ret)
    \/ \E ir_detected \in BOOLEAN, elapsed \in Elapsed, reading \in LoopReadings :
          CheckSensors(ir_detected, elapsed, reading)
    \/ \E kp \in LoopFrames : DetectPose(kp)
    \/ \E drawn \in BOOLEAN : DrawInterface(drawn)
    \/ \E key \in Keys : HandleKey(key)

---------------------------------------------------------------------------
(* The calls.                                                              *)

Init ==
    /\ pixel_to_cm_ratio = InitialRatio
    /\ calibrated = FALSE
    /\ threads = NoThreads
    /\ main = MainInit
    /\ iteration = NoIteration
    /\ call = [op |-> "init"]

\* measurements.calculate_from_keypoints(kp, d)
Measure(kp, d) ==
    LET out  == Calculated(kp, d, pixel_to_cm_ratio)
        same == call.op = "measure" /\ call.kp = kp /\ call.d = d
    IN  /\ pixel_to_cm_ratio' = out.ratio
        /\ calibrated' = (calibrated \/ out.assigned)
        /\ call' = [op |-> "measure", kp |-> kp, d |-> d, ret |-> out.ret,
                    ratio_before |-> pixel_to_cm_ratio,
                    repeats |-> same,
                    prev_ret |-> IF same THEN call.ret ELSE NoneResult]
        /\ UNCHANGED <<threads, main, iteration>>

\* clothing.overlay_garment(frame, kp, kind, gender, distance), frame 640x480
Overlay(kp, kind, gender) ==
    /\ call' = [op |-> "overlay", kp |-> kp, kind |-> kind, gender |-> gender,
                out |-> overlay_garment(FrameW, FrameH, kp, kind, gender),
                size |-> GarmentSize(kp, kind, gender)]
    /\ UNCHANGED <<pixel_to_cm_ratio, calibrated, threads, main, iteration>>

\* measurements.determine_size(m)
DetermineSize(m) ==
    /\ call' = [op |-> "determine_size", m |-> m, ret |-> determine_size(m)]
    /\ UNCHANGED <<pixel_to_cm_ratio, calibrated, threads, main, iteration>>

Next ==
    \/ \E kp \in Frames, d \in Readings : Measure(kp, d)
    \/ \E kp \in Frames, kind \in KindsAsked, gender \in GendersAsked :
            Overlay(kp, kind, gender)
    \/ \E m \in SizeInputs : DetermineSize(m)

Spec == Init /\ [][Next]_vars

\* Every subset of the landmarks visible, with a reading at the edge of the
\* calibration range and one inside it: the inputs are drawn first, and the
\* one call is made on them.
InitDrawn ==
    /\ pixel_to_cm_ratio = InitialRatio
    /\ calibrated = FALSE
    /\ threads = NoThreads
    /\ main = MainInit
    /\ iteration = NoIteration
    /\ call \in {[op |-> "drawn", kp |-> Keypoints(Restrict(Standing, V)), d |-> d] :
                    V \in SUBSET Landmarks, d \in {3000, 15000}}

MeasureDrawn == call.op = "drawn" /\ Measure(call.kp, call.d)

SpecDrawn == InitDrawn /\ [][MeasureDrawn]_vars

\* Shoulders on one line, from 100 px apart (the specification's worked
\* example) in steps of 20 px, with or without the hips, under the readings
\* above and 146.00, 150.00 and 171.91 cm.
MaxWiden == 3

ShoulderFrames ==
    {Keypoints(Restrict((right_shoulder :> Point(200 + 20 * k, 50)) @@ Standing, V)) :
        k \in 0..MaxWiden,
        V \in {{left_shoulder, right_shoulder, left_hip, right_hip},
               {left_shoulder, right_shoulder}}}

ShoulderReadings == Readings \cup {14600, 17191}

InitShoulders ==
    /\ pixel_to_cm_ratio = InitialRatio
    /\ calibrated = FALSE
    /\ threads = NoThreads
    /\ main = MainInit
    /\ iteration = NoIteration
    /\ call \in {[op |-> "drawn", kp |-> kp, d |-> d] :
                    kp \in ShoulderFrames, d \in ShoulderReadings}

SpecShoulders == InitShoulders /\ [][MeasureDrawn]_vars

---------------------------------------------------------------------------
(* calculate_from_keypoints statement by statement, called by two threads  *)
(* on one calculator.  A thread's pc is the source line it is about to     *)
(* execute; each read of self.pixel_to_cm_ratio is a step of its own.      *)

\* Line 35, line 39, the lines that read the ratio, and the return.
ProgramPoints == <<35, 39, 65, 78, 88, 97, 110, 120, 137, 141, 145, 148>>

Returned == 150

After(pc) ==
    LET i == CHOOSE j \in 1..Len(ProgramPoints) : ProgramPoints[j] = pc
    IN  ProgramPoints[i + 1]

ReadLines == {ProgramPoints[i] : i \in 3..(Len(ProgramPoints) - 1)}

\* Is the statement that reads the ratio at this line executed for kp?
ReadsAt(kp, line) ==
    CASE line = 65  -> HasBoth(kp, left_shoulder, right_shoulder)
      [] line = 78  -> HasAll(kp, left_shoulder, left_elbow, left_wrist)
      [] line = 88  -> HasAll(kp, right_shoulder, right_elbow, right_wrist)
      [] line = 97  -> HasAll(kp, neck, left_hip, right_hip)
      [] line = 110 -> HasAll(kp, left_hip, left_knee, left_ankle)
      [] line = 120 -> HasAll(kp, right_hip, right_knee, right_ankle)
      [] line = 137 -> HasBoth(kp, left_shoulder, right_shoulder)
      [] line = 141 -> HasBoth(kp, left_hip, right_hip)
      [] line = 145 -> HasBoth(kp, left_hip, right_hip)

\* One limb's px * ratio, with the ratio read at its line.
LimbCm(kp, a, b, c, read, line) ==
    IF line \in DOMAIN read THEN <<LimbPx(kp, a, b, c)[1] * read[line]>> ELSE <<>>

\* round(sum(lengths) / len(lengths), 1)
RoundMeanOf(cms) ==
    LET total == IF Len(cms) = 2 THEN cms[1] + cms[2] ELSE cms[1]
    IN  RoundHalfEven(Times(Limbs(total), 100 \div Len(cms)), 2)

\* The measurements dict, each formula with the ratio it read: read maps the
\* lines executed to the value of self.pixel_to_cm_ratio found there.
FieldsRead(kp, read) ==
    LET shoulder_width_px == distance(Get(kp, left_shoulder), Get(kp, right_shoulder))
        arm_lengths == LimbCm(kp, left_shoulder, left_elbow, left_wrist, read, 78)
                       \o LimbCm(kp, right_shoulder, right_elbow, right_wrist, read, 88)
        leg_lengths == LimbCm(kp, left_hip, left_knee, left_ankle, read, 110)
                       \o LimbCm(kp, right_hip, right_knee, right_ankle, read, 120)
        hip_px == distance(Get(kp, left_hip), Get(kp, right_hip))
        basic ==
            Entry(65 \in DOMAIN read, "shoulder_width",
                  RoundLength(shoulder_width_px, read[65]))
            @@ Entry(arm_lengths # <<>>, "arm_length", RoundMeanOf(arm_lengths))
            @@ Entry(97 \in DOMAIN read, "torso_length",
                     RoundLength(distance(Get(kp, neck), mid_hip(kp)), read[97]))
            @@ Entry(leg_lengths # <<>>, "leg_length", RoundMeanOf(leg_lengths))
        height ==
            Entry("torso_length" \in DOMAIN basic /\ "leg_length" \in DOMAIN basic,
                  "estimated_height",
                  RoundHalfEven(Limbs((12 * basic["torso_length"]
                                       + 10 * basic["leg_length"]) * 100), 1))
    IN  basic @@ height
        @@ Entry(137 \in DOMAIN read, "chest",
                 RoundCircumference(shoulder_width_px, read[137], 14, 50))
        @@ Entry(141 \in DOMAIN read, "hips",
                 RoundCircumference(hip_px, read[141], 12, 50))
        @@ Entry(145 \in DOMAIN read, "waist",
                 RoundCircumference(hip_px, read[145], 108, 5))

\* The frames and readings the two threads are called with.
ThreadFrames ==
    {NoKeypoints, Keypoints(Standing),
     Keypoints(Restrict(Astride, Landmarks \ {right_elbow, neck}))}

ThreadReadings == {3000, 10000, 20000}

\* A thread calls calculate_from_keypoints(kp, d).
Enter(t, kp, d) ==
    /\ threads[t].pc = 0
    /\ threads' = [threads EXCEPT ![t] = [pc |-> 35, kp |-> kp, d |-> d]]
    /\ UNCHANGED <<pixel_to_cm_ratio, calibrated, call, main, iteration>>

\* Lines 35-36: if not keypoints: return None
Guard(t) ==
    /\ threads[t].pc = 35
    /\ threads' = [threads EXCEPT ![t] =
          IF Falsy(@.kp)
          THEN [pc |-> Returned, kp |-> @.kp, d |-> @.d, ret |-> NoneResult]
          ELSE [pc |-> 39, kp |-> @.kp, d |-> @.d]]
    /\ UNCHANGED <<pixel_to_cm_ratio, calibrated, call, main, iteration>>

\* Lines 39-41: the calibration step; own is the ratio in effect after it.
CalibrateStep(t) ==
    /\ threads[t].pc = 39
    /\ pixel_to_cm_ratio' = Calibrate(pixel_to_cm_ratio, threads[t].d)
    /\ calibrated' = (calibrated \/ CalibrationValid(threads[t].d))
    /\ threads' = [threads EXCEPT ![t] =
          [pc |-> After(39), kp |-> @.kp, d |-> @.d,
           own |-> pixel_to_cm_ratio', read |-> EmptyMap]]
    /\ UNCHANGED <<call, main, iteration>>

\* One of lines 65..145: the formula there, if its landmarks are present,
\* reads self.pixel_to_cm_ratio.
ReadRatio(t) ==
    /\ threads[t].pc \in ReadLines
    /\ threads' = [threads EXCEPT ![t] =
          [@ EXCEPT !.pc = After(@),
                    !.read = IF ReadsAt(threads[t].kp, threads[t].pc)
                             THEN (threads[t].pc :> pixel_to_cm_ratio) @@ @
                             ELSE @]]
    /\ UNCHANGED <<pixel_to_cm_ratio, calibrated, call, main, iteration>>

\* Lines 148-150: size is added and the measurements are returned.
Return(t) ==
    /\ threads[t].pc = 148
    /\ threads' = [threads EXCEPT ![t] =
          [pc |-> Returned, kp |-> @.kp, d |-> @.d, own |-> @.own, read |-> @.read,
           ret |-> MeasurementSet(FieldsRead(@.kp, @.read))]]
    /\ UNCHANGED <<pixel_to_cm_ratio, calibrated, call, main, iteration>>

NextThreads ==
    \/ \E t \in Threads, kp \in ThreadFrames, d \in ThreadReadings : Enter(t, kp, d)
    \/ \E t \in Threads : Guard(t)
    \/ \E t \in Threads : CalibrateStep(t)
    \/ \E t \in Threads : ReadRatio(t)
    \/ \E t \in Threads : Return(t)

SpecThreads == Init /\ [][NextThreads]_vars

SpecLoop == Init /\ [][NextLoop]_vars

---------------------------------------------------------------------------
(* Properties.                                                             *)

Measured == call.op = "measure"

Overlaid == call.op = "overlay"

\* The keypoints of the last call are a mapping with at least one landmark.
SomeKeypoints == call.kp.some /\ DOMAIN call.kp.pts # {}

InsideRange(d) == 3000 < d /\ d < 30000

\* C1: a calculate_from_keypoints call whose proximity is not strictly inside
\* (30, 300), the ends 30 and 300 included, leaves pixel_to_cm_ratio as it was
\* before the call; the ratio is 0.2 until the first update and is always a
\* positive number.
C1_RatioKeptOutsideRange ==
    /\ pixel_to_cm_ratio \in Nat \ {0}
    /\ ~calibrated => pixel_to_cm_ratio = 20000
    /\ (Measured /\ ~InsideRange(call.d)) => pixel_to_cm_ratio = call.ratio_before

\* A call at the end 300 of the range, with keypoints, kept a ratio that an
\* earlier call had moved away from 0.2.
C1_Witness ==
    /\ Measured /\ call.d = 30000 /\ SomeKeypoints
    /\ calibrated /\ pixel_to_cm_ratio # 20000
    /\ pixel_to_cm_ratio = call.ratio_before

\* C2 as stated: after any calculate_from_keypoints call with 30 < d < 300 the
\* ratio is 0.15 + d/1000, whatever keypoints were passed.
C2_RatioSetByAnyValidCall ==
    (Measured /\ InsideRange(call.d)) => pixel_to_cm_ratio = 15000 + call.d

\* C2, amended: after any calculate_from_keypoints call with 30 < d < 300 and
\* keypoints that are neither None nor empty the ratio is 0.15 + d/1000; a call
\* with None or empty keypoints returns before the calibration and leaves the
\* ratio as it was.
C2_RatioSetByValidCallWithKeypoints ==
    /\ (Measured /\ InsideRange(call.d) /\ SomeKeypoints)
          => pixel_to_cm_ratio = 15000 + call.d
    /\ (Measured /\ ~SomeKeypoints) => pixel_to_cm_ratio = call.ratio_before

\* A call with keypoints and d = 30.01 moved the ratio to 0.18001.
C2_Witness ==
    /\ Measured /\ call.d = 3001 /\ SomeKeypoints
    /\ pixel_to_cm_ratio = 18001 /\ call.ratio_before # 18001

\* The guards of the MissingInput kind, on the arguments of the last call.
C3_Guarded ==
    \/ ~SomeKeypoints
    \/ call.kind \notin {"tshirt", "shirt", "jacket", "pants"}
    \/ call.gender \notin {"male", "female"}
    \/ /\ call.kind \in {"tshirt", "shirt", "jacket"}
       /\ ~({left_shoulder, right_shoulder} \subseteq DOMAIN call.kp.pts)
    \/ /\ call.kind = "pants"
       /\ ~({left_hip, right_hip} \subseteq DOMAIN call.kp.pts)

\* C3: under every guard of the MissingInput kind (keypoints None or empty,
\* kind not in the catalog, no asset for the kind and gender, a shoulder
\* missing for tshirt/shirt/jacket, a hip missing for pants) overlay_garment
\* returns the frame it was given, unmodified, and raises nothing.
C3_GuardsReturnTheFrame ==
    (Overlaid /\ C3_Guarded) => (call.out.returns = "frame" /\ ~call.out.written)

\* A shirt was asked for on a frame with the left shoulder and both hips but
\* no right shoulder, and the frame came back.
C3_Witness ==
    /\ Overlaid /\ call.kind = "shirt" /\ call.gender = "female"
    /\ {left_shoulder, left_hip, right_hip} \subseteq DOMAIN call.kp.pts
    /\ right_shoulder \notin DOMAIN call.kp.pts
    /\ call.out.returns = "frame"

\* The call hands back a frame with the input's pixels.
NoOp == call.out.returns \in {"frame", "result"} /\ ~call.out.written

\* The garment rectangle of the last call is not positive, or is wider or
\* taller than the frame.
DegenerateRect ==
    LET rect == GarmentRect(call.kp, call.kind)
    IN  \/ rect.width <= 0 \/ rect.height <= 0
        \/ rect.width > FrameW \/ rect.height > FrameH

\* C4: when the computed garment rectangle is not positive in width or height,
\* or is wider or taller than the frame, overlay_garment is a no-op: it
\* returns a frame identical to the input and raises nothing.
C4_DegenerateRectIsNoOp ==
    (Overlaid /\ ~C3_Guarded /\ DegenerateRect) => NoOp

\* C5: on a 640x480 frame, either overlay_garment reaches compositing with a
\* region that has 0 <= pos_x, 0 <= pos_y, pos_x + roi_width <= 640 and
\* pos_y + roi_height <= 480, or the call is a no-op.
C5_RegionInFrameOrNoOp ==
    Overlaid =>
        \/ /\ call.out.composites
           /\ 0 <= call.out.region.pos_x
           /\ 0 <= call.out.region.pos_y
           /\ call.out.region.pos_x + call.out.region.roi_width <= 640
           /\ call.out.region.pos_y + call.out.region.roi_height <= 480
        \/ ~call.out.composites /\ NoOp

\* The part of C5 the code does keep: a region that reaches compositing lies
\* inside the frame and is not empty.
RegionInFrame ==
    (Overlaid /\ call.out.composites) =>
        /\ 0 <= call.out.region.pos_x
        /\ 0 <= call.out.region.pos_y
        /\ 0 < call.out.region.roi_width
        /\ 0 < call.out.region.roi_height
        /\ call.out.region.pos_x + call.out.region.roi_width <= FrameW
        /\ call.out.region.pos_y + call.out.region.roi_height <= FrameH

\* C6: when every guard passes and the rectangle can be placed,
\* overlay_garment returns a frame of the input's size, the copy, with the
\* blended garment written into the region and nothing else changed.
C6_CompositedFrameReturned ==
    (Overlaid /\ ~C3_Guarded /\ ~DegenerateRect) =>
        (call.out.returns = "result" /\ call.out.written)

Present(S) == S \subseteq DOMAIN call.kp.pts

Field(name) == name \in DOMAIN call.ret.fields

\* C7: in the MeasurementSet returned, a field is present exactly when its
\* prerequisites are: shoulder_width and chest iff both shoulders; hips and
\* waist iff both hips; torso_length iff neck and both hips; arm_length iff
\* one arm has shoulder, elbow and wrist; leg_length iff one leg has hip, knee
\* and ankle; estimated_height iff torso_length and leg_length; size always.
C7_FieldsFollowPrerequisites ==
    (Measured /\ call.ret.kind = "measurements") =>
        /\ Field("shoulder_width") <=> Present({left_shoulder, right_shoulder})
        /\ Field("chest") <=> Present({left_shoulder, right_shoulder})
        /\ Field("hips") <=> Present({left_hip, right_hip})
        /\ Field("waist") <=> Present({left_hip, right_hip})
        /\ Field("torso_length") <=> Present({neck, left_hip, right_hip})
        /\ Field("arm_length") <=>
              \/ Present({left_shoulder, left_elbow, left_wrist})
              \/ Present({right_shoulder, right_elbow, right_wrist})
        /\ Field("leg_length") <=>
              \/ Present({left_hip, left_knee, left_ankle})
              \/ Present({right_hip, right_knee, right_ankle})
        /\ Field("estimated_height") <=> (Field("torso_length") /\ Field("leg_length"))
        /\ call.ret.size \in {"XS", "S", "M", "L", "XL", "XXL"}

\* Only the left arm qualifies and no leg does: arm_length and torso_length
\* are there, leg_length and estimated_height are not.
C7_Witness ==
    /\ Measured /\ call.ret.kind = "measurements"
    /\ Present({left_shoulder, left_elbow, left_wrist, neck, left_hip, right_hip})
    /\ right_elbow \notin DOMAIN call.kp.pts
    /\ left_knee \notin DOMAIN call.kp.pts /\ right_ankle \notin DOMAIN call.kp.pts
    /\ Field("arm_length") /\ Field("torso_length")
    /\ ~Field("leg_length") /\ ~Field("estimated_height")

\* C8 as stated: calculate_from_keypoints returns None only if the keypoints
\* are None; for every mapping supplied, however sparse, it returns a
\* MeasurementSet with at least the size label.
C8_NoneOnlyForNone ==
    Measured =>
        /\ call.ret.kind = "None" => ~call.kp.some
        /\ call.kp.some =>
              (call.ret.kind = "measurements"
               /\ call.ret.size \in {"XS", "S", "M", "L", "XL", "XXL"})

\* C8, amended: calculate_from_keypoints returns None exactly when the
\* keypoints are None or the empty mapping; for every mapping with at least
\* one landmark, however sparse, it returns a MeasurementSet with at least the
\* size label.
C8_NoneOnlyForNoneOrEmpty ==
    Measured =>
        /\ call.ret.kind = "None" <=> ~SomeKeypoints
        /\ SomeKeypoints =>
              (call.ret.kind = "measurements"
               /\ call.ret.size \in {"XS", "S", "M", "L", "XL", "XXL"})

\* A mapping holding one landmark the calculator never reads gave a
\* MeasurementSet with the size label alone.
C8_Witness ==
    /\ Measured /\ call.kp.some /\ DOMAIN call.kp.pts = {other_landmark}
    /\ call.ret.kind = "measurements"
    /\ DOMAIN call.ret.fields = {} /\ call.ret.size = "M"

\* The label the size table gives a measurements dict, chest in tenths of a cm.
C9_Label(m) ==
    IF "chest" \notin DOMAIN m THEN "M"
    ELSE CASE m["chest"] < 850 -> "XS"
           [] 850 <= m["chest"] /\ m["chest"] < 950 -> "S"
           [] 950 <= m["chest"] /\ m["chest"] < 1050 -> "M"
           [] 1050 <= m["chest"] /\ m["chest"] < 1150 -> "L"
           [] 1150 <= m["chest"] /\ m["chest"] < 1250 -> "XL"
           [] m["chest"] >= 1250 -> "XXL"

\* C9: the size label depends on chest alone: below 85 "XS", from 85 below 95
\* "S", from 95 below 105 "M", from 105 below 115 "L", from 115 below 125 "XL",
\* from 125 "XXL", and "M" when there is no chest; both for determine_size
\* called directly and for the size in a returned MeasurementSet.
C9_SizeFromChest ==
    /\ call.op = "determine_size" => call.ret = C9_Label(call.m)
    /\ (Measured /\ call.ret.kind = "measurements")
          => call.ret.size = C9_Label(call.ret.fields)

\* chest = 85.0 exactly, among other fields, was labelled "S".
C9_Witness ==
    /\ call.op = "determine_size" /\ DOMAIN call.m = {"chest", "hips"}
    /\ call.m["chest"] = 850 /\ call.ret = "S"

\* C10: a calculate_from_keypoints call with the keypoints and the proximity
\* of the call just before it returns what that call returned and leaves
\* pixel_to_cm_ratio as that call left it.
C10_RepeatedCallSameResult ==
    (Measured /\ call.repeats) =>
        (call.ret = call.prev_ret /\ pixel_to_cm_ratio = call.ratio_before)

\* A call with a proximity inside the range was repeated and returned a
\* MeasurementSet with a chest.
C10_Witness ==
    /\ Measured /\ call.repeats /\ InsideRange(call.d)
    /\ call.ret.kind = "measurements" /\ Field("chest")
    /\ call.ret = call.prev_ret

RECURSIVE Plus(_, _, _)
Plus(L, M, carry) ==
    IF L = <<>> /\ M = <<>> THEN (IF carry = 0 THEN <<>> ELSE <<carry>>)
    ELSE LET a == IF L = <<>> THEN 0 ELSE Head(L)
             b == IF M = <<>> THEN 0 ELSE Head(M)
             t == a + b + carry
         IN  <<t % 1000>> \o Plus(IF L = <<>> THEN L ELSE Tail(L),
                                  IF M = <<>> THEN M ELSE Tail(M), t \div 1000)

\* k * (3141000000 + low) / 10^14 rounded: k * pi / 10^5 to the nearest
\* integer, for pi cut to nine decimals (low = 592653) or raised in the
\* ninth (low = 592654).
PiRounded(k, low) ==
    RoundHalfEven(
        Times(Plus(<<0, 0>> \o Times(Limbs(k), 3141), Times(Limbs(k), low), 0), 10), 5)

\* C11: with both shoulders present and 30 < d < 300, the ratio is
\* 0.15 + d/1000, shoulder_width is dist x ratio and chest is
\* dist x 1.4 x ratio x pi/2, each rounded to one decimal, and size is the
\* label of that chest; shoulders (100,50), (200,50), hips (110,300),
\* (190,300) and d = 150 give ratio 0.30, shoulder_width 30.0, chest 66.0
\* and size "XS".
C11_ShoulderWidthAndChest ==
    (Measured /\ Present({left_shoulder, right_shoulder}) /\ InsideRange(call.d)) =>
        LET ratio == 15000 + call.d
            dist  == distance(call.kp.pts[left_shoulder], call.kp.pts[right_shoulder])
            width == call.ret.fields["shoulder_width"]
            chest == {PiRounded(dist * ratio * 7, 592653),
                      PiRounded(dist * ratio * 7, 592654)}
        IN  /\ pixel_to_cm_ratio = ratio
            /\ 2 * Abs(10000 * width - dist * ratio) <= 10000
            /\ call.ret.fields["chest"] \in chest
            /\ \E c \in chest : call.ret.size = C9_Label("chest" :> c)
            /\ (dist = 100 /\ call.d = 15000) =>
                  /\ pixel_to_cm_ratio = 30000
                  /\ width = 300
                  /\ call.ret.fields["chest"] = 660
                  /\ call.ret.size = "XS"

\* What the code computes instead: the chest with 3.14159 for pi.
ChestWithLiteral ==
    (Measured /\ Present({left_shoulder, right_shoulder}) /\ SomeKeypoints) =>
        LET dist == distance(call.kp.pts[left_shoulder], call.kp.pts[right_shoulder])
        IN  /\ 2 * Abs(10000 * call.ret.fields["shoulder_width"]
                       - dist * pixel_to_cm_ratio) <= 10000
            /\ call.ret.fields["chest"] =
                  RoundHalfEven(Times(Times(Limbs(dist * pixel_to_cm_ratio * 7), 314159),
                                      100), 4)

\* The worked example of the specification came out as it says.
WorkedExample ==
    /\ Measured /\ call.d = 15000 /\ pixel_to_cm_ratio = 30000
    /\ Present({left_shoulder, right_shoulder, left_hip, right_hip})
    /\ call.kp.pts[right_shoulder].x = 200
    /\ call.ret.fields["shoulder_width"] = 300
    /\ call.ret.fields["chest"] = 660 /\ call.ret.size = "XS"

\* A call of overlay_garment for pants got past the guards.
PantsSized ==
    /\ Overlaid /\ call.kind = "pants" /\ call.size.set
    /\ Present({left_hip, right_hip})

HipSpan == Abs(call.kp.pts[right_hip].x - call.kp.pts[left_hip].x)

\* The sum of the vertical pixel differences from each hip to the landmarks
\* l (left) and r (right).
LegDrop(l, r) ==
    Abs(call.kp.pts[l].y - call.kp.pts[left_hip].y)
    + Abs(call.kp.pts[r].y - call.kp.pts[right_hip].y)

\* The sum of the distances from each hip to the landmarks l and r.
LegReach(l, r) ==
    distance(call.kp.pts[l], call.kp.pts[left_hip])
    + distance(call.kp.pts[r], call.kp.pts[right_hip])

\* The width is 1.2 x the horizontal pixel difference of the hips, cut to
\* an integer.
PantsWidth ==
    /\ 5 * call.size.garment_width <= 6 * HipSpan
    /\ 6 * HipSpan < 5 * call.size.garment_width + 5

\* C12: for pants with both hips present the garment width is 1.2 x the
\* horizontal pixel difference of the hips and the height is chosen by strict
\* preference: both ankles present, the average vertical hip-to-ankle
\* difference (also when the knees are present); else both knees present,
\* the average vertical hip-to-knee difference x 2.1; else exactly 2 x the
\* width; each cut to an integer.
C12_PantsHeightPreference ==
    PantsSized =>
        LET height == call.size.garment_height
        IN  /\ PantsWidth
            /\ Present({left_ankle, right_ankle}) =>
                  /\ 2 * height <= LegDrop(left_ankle, right_ankle)
                  /\ LegDrop(left_ankle, right_ankle) < 2 * height + 2
            /\ (~Present({left_ankle, right_ankle}) /\ Present({left_knee, right_knee})) =>
                  /\ 20 * height <= 21 * LegDrop(left_knee, right_knee)
                  /\ 21 * LegDrop(left_knee, right_knee) < 20 * height + 20
            /\ (~Present({left_ankle, right_ankle}) /\ ~Present({left_knee, right_knee})) =>
                  height = 2 * call.size.garment_width

\* The ankles won over the knees, with both pairs present and the two rules
\* apart.
C12_Witness ==
    /\ PantsSized
    /\ Present({left_ankle, right_ankle, left_knee, right_knee})
    /\ 2 * call.size.garment_height = LegDrop(left_ankle, right_ankle)
    /\ 21 * LegDrop(left_knee, right_knee) >= 20 * call.size.garment_height + 20

\* Only one knee and one ankle seen: the height is twice the width.
OneOfAPair ==
    /\ PantsSized
    /\ Present({right_ankle, right_knee}) /\ ~Present({left_ankle}) /\ ~Present({left_knee})
    /\ call.size.garment_height = 2 * call.size.garment_width
    /\ call.size.garment_width > 0

\* No ankles, both knees: the knee rule.
KneesOnly ==
    /\ PantsSized
    /\ ~Present({left_ankle}) /\ ~Present({right_ankle}) /\ Present({left_knee, right_knee})
    /\ 20 * call.size.garment_height = 21 * LegDrop(left_knee, right_knee)
    /\ call.size.garment_height > 0

\* C12 as stated, with the distance between two landmarks: the height is
\* the average hip-to-ankle distance whenever both ankles are present, and
\* the average hip-to-knee distance x 2.1 when only both knees are (to
\* within two pixels, for the rounding of the distances and of the height).
C12_HeightByDistance ==
    PantsSized =>
        LET height == call.size.garment_height
        IN  /\ Present({left_ankle, right_ankle}) =>
                  Abs(2 * height - LegReach(left_ankle, right_ankle)) <= 4
            /\ (~Present({left_ankle, right_ankle}) /\ Present({left_knee, right_knee})) =>
                  Abs(20 * height - 21 * LegReach(left_knee, right_knee)) <= 80
            /\ (~Present({left_ankle, right_ankle}) /\ ~Present({left_knee, right_knee})) =>
                  height = 2 * call.size.garment_width

\* The thread is past its calibration step.
Calibrating(t) == threads[t].pc \in ReadLines \cup {148, Returned} /\ ~Falsy(threads[t].kp)

\* Every ratio the thread has read is the one left by its calibration step,
\* and what it returned is what that ratio alone gives.
OneRatio(t) ==
    /\ \A line \in DOMAIN threads[t].read : threads[t].read[line] = threads[t].own
    /\ threads[t].pc = Returned =>
          threads[t].ret = MeasurementSet(MeasurementFields(threads[t].kp, threads[t].own))

\* C13: within one calculate_from_keypoints call every emitted measurement
\* is computed with one and the same pixel_to_cm_ratio, the one in effect
\* after that call's calibration step, also when two calls on the same
\* calculator run concurrently: no interleaving lets a call read a ratio
\* written by the other call partway through its formulas.
C13_OneRatioPerCall == \A t \in Threads : Calibrating(t) => OneRatio(t)

\* A call that has the calculator to itself uses one ratio throughout.
AloneUsesOneRatio ==
    \A t \in Threads :
        (Calibrating(t) /\ \A u \in Threads \ {t} : threads[u].pc = 0) => OneRatio(t)

\* A returned call whose reads all found its own ratio returned what the
\* call as a whole computes.
ReadsAgreeWithCall ==
    \A t \in Threads :
        (Calibrating(t) /\ threads[t].pc = Returned
         /\ \A line \in DOMAIN threads[t].read : threads[t].read[line] = threads[t].own)
        => threads[t].ret = MeasurementSet(MeasurementFields(threads[t].kp, threads[t].own))

\* C14: in the main loop, after any sequence of key commands and gesture
\* toggles, current_garment is one of tshirt, shirt, jacket, pants and
\* user_gender one of male, female; the catalog __init__ builds holds an
\* asset for each of the 8 pairs; so overlay_garment is never called from
\* the loop with an unknown kind or a missing asset.
C14_GarmentAndGenderInCatalog ==
    /\ main.current_garment \in {"tshirt", "shirt", "jacket", "pants"}
    /\ main.user_gender \in {"male", "female"}
    /\ garments \in CatalogsBuilt
    /\ \A catalog \in CatalogsBuilt :
         \A k \in {"tshirt", "shirt", "jacket", "pants"}, g \in {"male", "female"} :
            /\ k \in DOMAIN catalog /\ g \in DOMAIN catalog[k]
            /\ catalog[k][g] # "None"
    /\ iteration.overlay.called =>
          /\ iteration.overlay.kind \in DOMAIN garments
          /\ GarmentImage(iteration.overlay.kind, iteration.overlay.gender) # "None"

\* overlay_garment was called for pants, female, after a gesture had toggled
\* the garment away from pants in an earlier iteration.
C14_Witness ==
    /\ iteration.overlay.called
    /\ iteration.overlay.kind = "pants" /\ iteration.overlay.gender = "female"
    /\ main.gesture_age <= Debounce

\* The last pass through line 75 toggled a garment other than tshirt.
GestureFromOther ==
    /\ main.pc = "pose" /\ main.gesture_age = 0 /\ main.current_garment = "tshirt"
    /\ main.user_gender = "female" /\ ~main.show_measurements /\ main.show_debug

\* The frame of this iteration had no keypoints, and the iteration is past
\* the pose detection.
NoBody == main.pc \in {"draw", "key", "grab", "stopped"} /\ iteration.shown.passed
          /\ Falsy(main.body_keypoints)

\* The value was assigned by calculate_from_keypoints in this iteration, from
\* the keypoints of this iteration's frame.
Fresh(value) ==
    /\ iteration.assigned
    /\ ~Falsy(main.body_keypoints)
    /\ value = iteration.fresh
    /\ value = MeasurementSet(MeasurementFields(main.body_keypoints, pixel_to_cm_ratio))

\* C15: in every iteration of the main loop user_measurements is read, for
\* the UI or by the 'c' export, only if calculate_from_keypoints assigned it
\* earlier in the same iteration from the current frame's keypoints; in a
\* frame without keypoints the UI receives None and 'c' writes nothing; so
\* the variable is never read before assignment and a stale set is never
\* shown or exported.
C15_MeasurementsReadOnlyWhenFresh ==
    /\ (iteration.shown.passed /\ iteration.shown.read) => Fresh(iteration.shown.value)
    /\ iteration.saved.written => Fresh(iteration.saved.value)
    /\ NoBody =>
          /\ ~iteration.shown.read /\ iteration.shown.value = NoneResult
          /\ ~iteration.saved.written

\* 'c' was pressed on a frame without keypoints while user_measurements still
\* held the set of an earlier frame: None was shown and nothing written.
C15_Witness ==
    /\ NoBody /\ iteration.key = "c"
    /\ main.user_measurements # Unbound
    /\ main.user_measurements.kind = "measurements"

\* 'c' wrote the set measured in this iteration.
SavedFresh ==
    /\ iteration.saved.written /\ iteration.key = "c"
    /\ iteration.saved.value.kind = "measurements"
    /\ iteration.shown.read

\* A frame without keypoints before user_measurements was ever assigned.
NeverAssigned == NoBody /\ main.user_measurements = Unbound /\ iteration.key = "c"

===========================================================================
